---- MODULE Spec2Model ----
(***************************************************************************)
(* Model of the false-fact-server analysis pipeline.                       *)
(*                                                                         *)
(*  - Spec   : PollinationsService.analyzeText of src/reference.ts, the    *)
(*             retry loop around one provider round trip per attempt.      *)
(*  - GoSpec : the Go server of src/main.go and src/aicall.go: main, the   *)
(*             three analysis handlers, the two provider clients and the   *)
(*             two response validators.                                    *)
(*  - EntrySpec : the entry points AiAnalyzeArticle, AiAnalyzeTextLong and  *)
(*             AiAnalyzeTextShort of src/aicall.go called as functions,    *)
(*             with any model argument and any GEMINI_API_KEY.             *)
(*                                                                         *)
(* The services reference.ts imports (errorRecoveryService,                *)
(* gracefulDegradationService, sanitizeText, the TypeScript                *)
(* parseAnalysisResponse) are not part of src/; they are modelled from     *)
(* spec.md sections 4.3, 4.4, 4.6 and 7.                                   *)
(***************************************************************************)
EXTENDS Integers, Sequences, FiniteSets, TLC

VARIABLES
    \* ---- reference.ts: one PollinationsService.analyzeText call at a time
    pc,             \* position of the call: idle, attempting, awaiting, sleeping, done
    text,           \* the text argument
    processedLen,   \* processedText.length
    attempt,        \* the loop counter of the for loop
    lastError,      \* let lastError
    result,         \* what the call returned or threw
    providerCalls,  \* fetch calls issued by the current call
    replies,        \* the provider's reply to each of them, in order
    plans,          \* recoveryPlan of each failed attempt, in order
    sleeps,         \* the delay of each this.delay(...) of the current call
    retryHistory,   \* errorRecoveryService's recorded retry attempts
    backoffBase,    \* first backoff delay of errorRecoveryService
    calls,          \* analyzeText calls started so far
    args,           \* the url and title arguments
    earlier,        \* the result of an earlier call, as its caller kept it
    \* ---- main.go / aicall.go: one HTTP request at a time
    gpc,            \* boot, idle, calling, done, exited
    selectedModel,  \* var selectedModel Model
    apiKey,         \* os.Getenv("GEMINI_API_KEY")
    greq,           \* the request being handled
    gmodel,         \* the model argument of the AiAnalyze* call in progress
    gcalls,         \* outbound provider requests issued for it
    greply,         \* how the provider round trip ended
    gret,           \* what AiAnalyze* returned: (result, err)
    gresp,          \* the HTTP response written by the handler
    served,         \* requests handled so far
    \* ---- server-control.sh: invocations of the script and the processes
    pidFile,        \* content of $PID_FILE, 0 when the file does not exist
    alive,          \* PIDs of the server processes that exist
    portHolder,     \* who listens on $PORT: 0 nobody, a PID, or Foreign
    inv,            \* the script invocations: command, position, locals
    launches        \* server processes launched so far

vars == <<pc, text, processedLen, attempt, lastError, result, providerCalls,
          replies, plans, sleeps, retryHistory, backoffBase, calls, args, earlier,
          gpc, selectedModel, apiKey, greq, gmodel, gcalls, greply, gret, gresp,
          served, pidFile, alive, portHolder, inv, launches>>

tsVars == <<pc, text, processedLen, attempt, lastError, result, providerCalls,
            replies, plans, sleeps, retryHistory, backoffBase, calls, args, earlier>>

goVars == <<gpc, selectedModel, apiKey, greq, gmodel, gcalls, greply, gret, gresp,
            served>>

ctlVars == <<pidFile, alive, portHolder, inv, launches>>

(***************************************************************************)
(* Bounds of the model.                                                    *)
(***************************************************************************)
MaxCalls == 2

MaxServed == 2

Min(a, b) == IF a <= b THEN a ELSE b

(***************************************************************************)
(* Errors.  ExtensionError is the typed error of both programs; RawError   *)
(* stands for any other thrown value or Go error (a fetch TypeError, a     *)
(* SyntaxError of response.json(), an error of net/http or encoding/json). *)
(***************************************************************************)
ExtensionError(t, m, r, u) ==
    [ext |-> TRUE, type |-> t, message |-> m, retryable |-> r, userMessage |-> u]

RawError(m) ==
    [ext |-> FALSE, type |-> "Error", message |-> m, retryable |-> FALSE,
     userMessage |-> ""]

NoError ==
    [ext |-> FALSE, type |-> "null", message |-> "", retryable |-> FALSE,
     userMessage |-> ""]

ErrorTypes == {"RATE_LIMITED", "API_UNAVAILABLE", "INVALID_CONTENT", "NETWORK_ERROR"}

(***************************************************************************)
(* reference.ts                                                            *)
(***************************************************************************)
maxRetriesOffByOne == 3 + 1

maxRetries == 3

maxRetryDelay == 10000

MinContentLength == 50

TruncateThreshold == 5000

TruncateTarget == 4000

\* A text is given by its length, by how much of it is leading or trailing
\* whitespace and by what the rest says; absent |-> TRUE is an undefined/null
\* argument.
Texts ==
    { [absent |-> a, len |-> n, ws |-> w, body |-> "a"] :
        a \in BOOLEAN, n \in {0, 3, 49, 50, 60, 5000, 5001}, w \in {0, 3} }

TextInputs == { t \in Texts : t.ws <= t.len /\ (t.absent => t.len = 0) }

\* !text?.trim()
IsBlank(t) == t.absent \/ t.len - t.ws = 0

\* sanitizeText(text).length: normalisation removes the surrounding whitespace.
sanitizeText(t) == t.len - t.ws

\* gracefulDegradationService.truncateContentForAnalysis(text, maxLength).length
truncateContentForAnalysis(len, maxLength) == Min(len, maxLength)

\* const processedText = sanitizedText.length > 5000 ? truncate(..., 4000) : sanitizedText
ProcessTextCutsTail(len) ==
    IF len > TruncateThreshold
    THEN len - (TruncateThreshold - TruncateTarget)
    ELSE len

ProcessText(len) ==
    IF len > TruncateThreshold
    THEN truncateContentForAnalysis(len, TruncateTarget)
    ELSE len

\* What one fetch can bring back: a transport failure, or a response with a
\* status and, when it is 2xx, a body.
HttpStatuses == {200, 302, 400, 403, 404, 429, 500}

Bodies == {"valid", "notjson", "invalid"}

\* The analysis a valid body holds.  ScenarioResponse is the response of the
\* scenario of spec.md; SourcedResponse has sources; StampedResponse has no
\* sources field and has an id, a timestamp and a contentHash of its own.
NoDoc == [none |-> TRUE]

ScenarioResponse ==
    [credibilityScore |-> 85, factuality |-> 90, objectivity |-> 70, confidence |-> 80,
     factual |-> <<"x">>, unfactual |-> <<>>, subjective |-> <<>>, objective |-> <<>>,
     sources |-> [nil |-> FALSE, items |-> <<>>]]

SourcedResponse ==
    [credibilityScore |-> 40, factuality |-> 30, objectivity |-> 20, confidence |-> 10,
     factual |-> <<>>, unfactual |-> <<"y">>, subjective |-> <<"z">>, objective |-> <<>>,
     sources |-> [nil |-> FALSE, items |-> <<"[1](u)">>]]

StampedResponse ==
    [credibilityScore |-> 85, factuality |-> 90, objectivity |-> 70, confidence |-> 80,
     factual |-> <<"x">>, unfactual |-> <<>>, subjective |-> <<>>, objective |-> <<>>,
     sources |-> [nil |-> TRUE, items |-> <<>>],
     id |-> "provider", timestamp |-> 0, contentHash |-> "provider"]

ApiResponses == {ScenarioResponse, SourcedResponse, StampedResponse}

RepliesWith(statuses, bodies, docs) ==
    { [kind |-> "transport", status |-> 0, body |-> "none", doc |-> NoDoc] }
    \cup { [kind |-> "http", status |-> s, body |-> "none", doc |-> NoDoc] :
             s \in { x \in statuses : x < 200 \/ x >= 300 } }
    \cup { [kind |-> "http", status |-> s, body |-> b, doc |-> NoDoc] :
             s \in { x \in statuses : x >= 200 /\ x < 300 }, b \in bodies \ {"valid"} }
    \cup { [kind |-> "http", status |-> s, body |-> "valid", doc |-> d] :
             s \in { x \in statuses : x >= 200 /\ x < 300 }, d \in docs }

ProviderReplies == RepliesWith(HttpStatuses, Bodies, {ScenarioResponse})

\* response.ok
ResponseOk(status) == status >= 200 /\ status < 300

createHttpError(status, message) ==
    IF status = 429
    THEN ExtensionError("RATE_LIMITED", "API rate limit exceeded", TRUE,
                        "Please wait a moment before trying again")
    ELSE IF status >= 500
    THEN ExtensionError("API_UNAVAILABLE", "Analysis service is temporarily unavailable",
                        TRUE, "Please try again in a few minutes")
    ELSE IF status = 404
    THEN ExtensionError("API_UNAVAILABLE", "API endpoint not found (404)", FALSE,
                        "Using fallback analysis method")
    ELSE IF status = 400
    THEN ExtensionError("INVALID_CONTENT", "Invalid request format or content", FALSE,
                        "Please try with different content or check your input")
    ELSE IF status >= 400 /\ status < 500
    THEN ExtensionError("API_UNAVAILABLE",
                        "API request failed with status " \o ToString(status), FALSE,
                        "Please check your request and try again")
    ELSE ExtensionError("NETWORK_ERROR", message, TRUE,
                        "Please check your internet connection and try again")

\* The TypeScript parseAnalysisResponse(content) of ../utils: a body that does
\* not validate is an INVALID_CONTENT error that may be retried.
tsParseAnalysisResponse(body, doc) ==
    IF body = "valid"
    THEN [ok |-> TRUE, value |-> doc, error |-> NoError]
    ELSE [ok |-> FALSE,
          error |-> ExtensionError("INVALID_CONTENT", "Failed to parse analysis response",
                                   TRUE, "Try analyzing the content again")]

\* doApiCall up to its first return; the statements after it never run.
doApiCall(reply) ==
    IF reply.kind = "transport"
    THEN [ok |-> FALSE, error |-> RawError("fetch failed")]
    ELSE IF ~ResponseOk(reply.status)
    THEN [ok |-> FALSE,
          error |-> createHttpError(reply.status,
                        "POST request failed with status " \o ToString(reply.status))]
    ELSE IF reply.body = "notjson"
    THEN [ok |-> FALSE, error |-> RawError("Unexpected token in JSON")]
    ELSE tsParseAnalysisResponse(reply.body, reply.doc)

AllStrategiesFailed ==
    ExtensionError("API_UNAVAILABLE", "All API request strategies failed", TRUE,
                   "Please try again later")

makeApiRequest(reply) ==
    LET r == doApiCall(reply) IN
    IF r.ok THEN r
    ELSE IF r.error.ext /\ ~r.error.retryable THEN r
    ELSE [ok |-> FALSE, error |-> AllStrategiesFailed]

(***************************************************************************)
(* errorRecoveryService (../utils/error-recovery.js), from spec.md 4.4 and *)
(* 7: the verdict of a failure.  RateLimited, retryable ApiUnavailable and *)
(* NetworkError give Retry; 404 gives Fallback; 400 and the other 4xx give *)
(* Abort; an unclassified failure is a NetworkError and gives Retry.  The  *)
(* backoff delay doubles with each attempt and is capped.                  *)
(***************************************************************************)
BackoffCap == 10000

BackoffBases == {1000, 6000}

Strategies == {"Retry", "Fallback", "Degrade", "Abort"}

Pow2(n) == IF n <= 0 THEN 1 ELSE IF n = 1 THEN 2 ELSE IF n = 2 THEN 4 ELSE 8

BackoffDelayUncapped(base, n) == base * Pow2(n - 1)

BackoffDelay(base, n) == Min(base * Pow2(n - 1), BackoffCap)

StrategyOf(error) ==
    IF ~error.ext THEN "Retry"
    ELSE IF error.retryable THEN "Retry"
    ELSE IF error.type = "API_UNAVAILABLE" /\ error.message = "API endpoint not found (404)"
    THEN "Fallback"
    ELSE "Abort"

analyzeError(error, n, base) ==
    [strategy |-> StrategyOf(error),
     retryable |-> IF error.ext THEN error.retryable ELSE TRUE,
     backoffDelay |-> BackoffDelay(base, n)]

\* errorRecoveryService.shouldUseFallback(recoveryPlan)
shouldUseFallback(plan) == plan.strategy \in {"Fallback", "Degrade"}

\* errorRecoveryService.recordRetryAttempt / clearRetryHistory
recordRetryAttempt(history) == history + 1

clearRetryHistory(history) == 0

(***************************************************************************)
(* PollinationsService.analyzeText                                         *)
(***************************************************************************)
NoResult == [kind |-> "none", error |-> NoError]

Success(v) == [kind |-> "success", error |-> NoError, value |-> v]

\* gracefulDegradationService.createFallbackAnalysisResult(...), returned
Fallback == [kind |-> "fallback", error |-> NoError]

\* throw error
ThrownSwallowed(e) == [kind |-> "none", error |-> e]

Thrown(e) == [kind |-> "error", error |-> e]

\* if (!recoveryPlan.retryable || attempt >= this.maxRetries)
ShouldStopOnlyWhenExhausted(plan, n) == n >= maxRetries

ShouldStopNegated(plan, n) == plan.retryable \/ n >= maxRetries

ShouldStop(plan, n) == ~plan.retryable \/ n >= maxRetries

\* recoveryPlan.strategy === FALLBACK || recoveryPlan.strategy === DEGRADE
DegradesOnlyOnDegrade(plan) == plan.strategy = "Degrade"

Degrades(plan) == plan.strategy = "Fallback" \/ plan.strategy = "Degrade"

\* const delay = Math.min(recoveryPlan.backoffDelay, this.maxRetryDelay)
RetryDelayMax(plan) ==
    IF plan.backoffDelay >= maxRetryDelay THEN plan.backoffDelay ELSE maxRetryDelay

RetryDelay(plan) == Min(plan.backoffDelay, maxRetryDelay)

\* An argument that is not given.
Undefined == "<undefined>"

Urls == {Undefined, "", "unknown", "https://a"}

Titles == {Undefined, "T"}

\* Date.now() of a call, and the seven characters taken from Math.random().
Clock == {1000, 1001}

Randoms == {"r1", "r2"}

\* url || "unknown", title || "Untitled Content"
OrElse(v, default) == IF v \in {Undefined, ""} THEN default ELSE v

\* generateContentHash(content, url) of ../utils: a hash that tells any two
\* different pairs of arguments apart.
generateContentHash(content, u) == <<content, u>>

\* processedText: what is left of the text after sanitizing and truncating.
ProcessedText(t, len) == [len |-> len, body |-> t.body]

createAnalysisResultNoSources(apiResponse, content, u, ti, now, rnd) ==
    [id |-> <<"analysis", now, rnd>>,
     url |-> OrElse(u, "unknown"),
     title |-> OrElse(ti, "Untitled Content"),
     factual |-> apiResponse.factual,
     unfactual |-> apiResponse.unfactual,
     subjective |-> apiResponse.subjective,
     objective |-> apiResponse.objective,
     credibilityScore |-> apiResponse.credibilityScore,
     factuality |-> apiResponse.factuality,
     objectivity |-> apiResponse.objectivity,
     sources |-> <<>>,
     confidence |-> apiResponse.confidence,
     timestamp |-> now,
     contentHash |-> generateContentHash(content, OrElse(u, "unknown"))]

createAnalysisResult(apiResponse, content, u, ti, now, rnd) ==
    [id |-> <<"analysis", now, rnd>>,
     url |-> OrElse(u, "unknown"),
     title |-> OrElse(ti, "Untitled Content"),
     factual |-> apiResponse.factual,
     unfactual |-> apiResponse.unfactual,
     subjective |-> apiResponse.subjective,
     objective |-> apiResponse.objective,
     credibilityScore |-> apiResponse.credibilityScore,
     factuality |-> apiResponse.factuality,
     objectivity |-> apiResponse.objectivity,
     sources |-> IF apiResponse.sources.nil THEN <<>> ELSE apiResponse.sources.items,
     confidence |-> apiResponse.confidence,
     timestamp |-> now,
     contentHash |-> generateContentHash(content, OrElse(u, "unknown"))]

\* The statements after the for loop.
AfterLoop(err, n, base) ==
    IF err # NoError /\ shouldUseFallback(analyzeError(err, n, base)) THEN Fallback
    ELSE IF err # NoError /\ err.ext THEN Thrown(err)
    ELSE Thrown(ExtensionError("API_UNAVAILABLE",
                               "Failed to analyze content after multiple attempts",
                               TRUE, "Please try again later"))

\* analyzeText(text, url, title) up to the first attempt.
AnalyzeText(t, u, ti) ==
    /\ pc \in {"idle", "done"}
    /\ calls < MaxCalls
    /\ calls' = calls + 1
    /\ text' = t
    /\ args' = [url |-> u, title |-> ti]
    /\ providerCalls' = 0
    /\ replies' = <<>>
    /\ plans' = <<>>
    /\ sleeps' = <<>>
    /\ lastError' = NoError
    /\ attempt' = 1
    /\ IF IsBlank(t)
       THEN /\ result' = Thrown(ExtensionError("INVALID_CONTENT",
                             "Text content cannot be empty", FALSE,
                             "Please provide valid content to analyze"))
            /\ processedLen' = 0
            /\ pc' = "done"
       ELSE IF sanitizeText(t) < MinContentLength
       THEN /\ result' = Thrown(ExtensionError("INVALID_CONTENT",
                             "Text content is too short for analysis", FALSE,
                             "Please provide at least 50 characters of content"))
            /\ processedLen' = 0
            /\ pc' = "done"
       ELSE /\ result' = NoResult
            /\ processedLen' = ProcessText(sanitizeText(t))
            /\ pc' = "attempting"
    /\ UNCHANGED <<retryHistory, backoffBase, earlier>>
    /\ UNCHANGED <<goVars, ctlVars>>

\* for (attempt ...) { try { await this.makeApiRequest(processedText) ...:
\* the request of doApiCall's fetch goes out.
Fetch ==
    /\ pc = "attempting"
    /\ providerCalls' = providerCalls + 1
    /\ pc' = "awaiting"
    /\ UNCHANGED <<text, processedLen, attempt, lastError, result, replies, plans,
                   sleeps, retryHistory, backoffBase, calls, args, earlier>>
    /\ UNCHANGED <<goVars, ctlVars>>

\* The fetch settles with reply: the rest of the try block, or the catch block.
SettleWith(reply, now, rnd) ==
    /\ replies' = Append(replies, reply)
    /\ LET r == makeApiRequest(reply)
           plan == analyzeError(r.error, attempt, backoffBase)
       IN IF r.ok
          THEN /\ retryHistory' = IF lastError # NoError
                                  THEN clearRetryHistory(retryHistory)
                                  ELSE retryHistory
               /\ result' = Success(createAnalysisResult(r.value,
                                         ProcessedText(text, processedLen),
                                         args.url, args.title, now, rnd))
               /\ pc' = "done"
               /\ UNCHANGED <<lastError, plans, sleeps, attempt>>
          ELSE /\ lastError' = r.error
               /\ retryHistory' = recordRetryAttempt(retryHistory)
               /\ plans' = Append(plans, plan)
               /\ IF ShouldStop(plan, attempt)
                  THEN /\ result' = IF Degrades(plan) THEN Fallback ELSE Thrown(r.error)
                       /\ pc' = "done"
                       /\ UNCHANGED <<sleeps, attempt>>
                  ELSE IF attempt < maxRetries
                  THEN /\ sleeps' = Append(sleeps, RetryDelay(plan))
                       /\ pc' = "sleeping"
                       /\ UNCHANGED <<result, attempt>>
                  ELSE /\ attempt' = attempt + 1
                       /\ result' = AfterLoop(r.error, attempt + 1, backoffBase)
                       /\ pc' = "done"
                       /\ UNCHANGED sleeps
    /\ UNCHANGED <<text, processedLen, providerCalls, backoffBase, calls, args, earlier>>
    /\ UNCHANGED <<goVars, ctlVars>>

Settle ==
    /\ pc = "awaiting"
    /\ \E reply \in ProviderReplies : SettleWith(reply, 1000, "r1")

\* The clock of a later call is not behind the timestamp of an earlier one.
StampSettle ==
    /\ pc = "awaiting"
    /\ \E reply \in RepliesWith({200, 429}, {"valid"}, ApiResponses),
          now \in { n \in Clock : earlier.kept => n >= earlier.timestamp },
          rnd \in Randoms :
          SettleWith(reply, now, rnd)

\* await this.delay(delay) is over: continue, attempt++ and the loop test.
Wake ==
    /\ pc = "sleeping"
    /\ attempt' = attempt + 1
    /\ IF attempt + 1 <= maxRetries
       THEN /\ pc' = "attempting"
            /\ UNCHANGED result
       ELSE /\ pc' = "done"
            /\ result' = AfterLoop(lastError, attempt + 1, backoffBase)
    /\ UNCHANGED <<text, processedLen, lastError, providerCalls, replies, plans,
                   sleeps, retryHistory, backoffBase, calls, args, earlier>>
    /\ UNCHANGED <<goVars, ctlVars>>

\* The caller of a successful call keeps the stamps of what it received, with
\* the arguments it gave, to compare a later result with them.
NoEarlier == [kept |-> FALSE]

KeepResult ==
    /\ pc = "done"
    /\ result.kind = "success"
    /\ ~earlier.kept
    /\ earlier' = [kept |-> TRUE, text |-> text, url |-> args.url,
                    id |-> result.value.id, timestamp |-> result.value.timestamp,
                    contentHash |-> result.value.contentHash]
    /\ pc' = "idle"
    /\ UNCHANGED <<text, processedLen, attempt, lastError, result, providerCalls, replies,
                   plans, sleeps, retryHistory, backoffBase, calls, args>>
    /\ UNCHANGED <<goVars, ctlVars>>

NoText == [absent |-> TRUE, len |-> 0, ws |-> 0, body |-> "a"]

TsRest ==
    /\ pc = "idle"
    /\ text = NoText
    /\ processedLen = 0
    /\ attempt = 1
    /\ lastError = NoError
    /\ result = NoResult
    /\ providerCalls = 0
    /\ replies = <<>>
    /\ plans = <<>>
    /\ sleeps = <<>>
    /\ retryHistory = 0
    /\ calls = 0
    /\ args = [url |-> Undefined, title |-> Undefined]
    /\ earlier = NoEarlier

TsInit == TsRest /\ backoffBase \in BackoffBases

(***************************************************************************)
(* aicall.go: the text a provider returns, and the two validators.         *)
(*                                                                         *)
(* A content is what the model wrote: nothing, prose without an object,    *)
(* braces that are no JSON, or a JSON object (doc).  A long document has   *)
(* the fields of AnalysisResponse, a short one those of                    *)
(* ShortAnalysisResponse; an absent number is 0 and an absent array is     *)
(* empty, as encoding/json leaves them.                                    *)
(***************************************************************************)
Scores == {-1, 0, 100, 101}

ReasonLists == {<<>>, <<"x">>}

\* A sources field: absent or null (nil |-> TRUE), or an array of strings.
NilSources == [nil |-> TRUE, items |-> <<>>]

SourceLists ==
    {NilSources} \cup
    { [nil |-> FALSE, items |-> q] : q \in {<<>>, <<"", "[1](u)">>, <<" ", "[2](v)", "">>} }

LongDoc(cs, fa, ob, co, rf, ru, rs, ro, src) ==
    [credibilityScore |-> cs, factuality |-> fa, objectivity |-> ob, confidence |-> co,
     factual |-> rf, unfactual |-> ru, subjective |-> rs, objective |-> ro,
     sources |-> src]

ZeroLongDoc == LongDoc(0, 0, 0, 0, <<>>, <<>>, <<>>, <<>>, NilSources)

LongDocs ==
    { LongDoc(cs, fa, ob, co, rf, ru, rs, ro, NilSources) :
        cs \in Scores, fa \in Scores, ob \in Scores, co \in Scores,
        rf \in ReasonLists, ru \in ReasonLists, rs \in ReasonLists, ro \in ReasonLists }
    \cup { LongDoc(85, 90, 70, 80, <<"x">>, <<>>, <<>>, <<>>, src) : src \in SourceLists }

\* How a key of "analysis" is given: not at all, as null, as a string (what the
\* prompt asks for), or as an array of strings (what type Analysis declares).
KeyValues == {"absent", "null", "string", "array"}

ShortDoc(fa, fl, op, no, co, src) ==
    [fact |-> fa, false |-> fl, opinion |-> op, none |-> no, confidence |-> co,
     sources |-> src]

ZeroShortDoc == ShortDoc("absent", "absent", "absent", "absent", 0, NilSources)

ShortDocs ==
    { ShortDoc(fa, fl, op, no, co, NilSources) :
        fa \in KeyValues, fl \in KeyValues, op \in KeyValues,
        no \in {"absent", "string"}, co \in Scores }
    \cup { ShortDoc("array", "absent", "absent", "absent", 80, src) : src \in SourceLists }

\* Texts that hold no JSON object: the empty text, prose, text with braces that
\* is no JSON, and the JSON literal null.
NonJsonShapes == {"empty", "prose", "badjson", "null"}

\* What surrounds the object: nothing, prose without braces, or prose that
\* itself contains braces.
Wrappers == {"", "prose", "braces"}

Content(pre, sh, d, post) == [pre |-> pre, shape |-> sh, doc |-> d, post |-> post]

SampleLongDoc == LongDoc(85, 90, 70, 80, <<"x">>, <<>>, <<>>, <<>>, NilSources)

SampleShortDoc == ShortDoc("array", "absent", "absent", "absent", 80, NilSources)

LongContents ==
    { Content("", sh, ZeroLongDoc, "") : sh \in NonJsonShapes }
    \cup { Content("", "json", d, "") : d \in LongDocs }
    \cup { Content(pre, "json", SampleLongDoc, post) : pre \in Wrappers, post \in Wrappers }

ShortContents ==
    { Content("", sh, ZeroShortDoc, "") : sh \in NonJsonShapes }
    \cup { Content("", "json", d, "") : d \in ShortDocs }
    \cup { Content(pre, "json", SampleShortDoc, post) : pre \in Wrappers, post \in Wrappers }

EmptyLongContent == Content("", "empty", ZeroLongDoc, "")

EmptyShortContent == Content("", "empty", ZeroShortDoc, "")

\* bytes.TrimSpace, then regexp \{[\s\S]*\} and FindString: the text from the
\* first { to the last } of the whole content, or the content itself when
\* nothing matches.  exact says that the text handed on is the object alone.
ExtractJson(content) ==
    LET hasBrace == content.shape \in {"badjson", "json"}
                    \/ content.pre = "braces" \/ content.post = "braces"
        first == IF content.pre = "braces" THEN "pre" ELSE "object"
        last == IF content.post = "braces" THEN "post" ELSE "object"
    IN [matched |-> hasBrace,
        shape |-> content.shape,
        exact |-> IF hasBrace
                  THEN first = "object" /\ last = "object"
                  ELSE content.pre = "" /\ content.post = "",
        doc |-> content.doc]

\* json.Unmarshal([]byte(content), &parsed) for AnalysisResponse.  The literal
\* null is valid JSON that leaves a struct as it is: no error, parsed stays zero.
UnmarshalLong(json) ==
    IF json.shape \in {"json", "null"} /\ json.exact
    THEN [ok |-> TRUE, parsed |-> json.doc]
    ELSE [ok |-> FALSE, parsed |-> ZeroLongDoc]

\* json.Unmarshal for ShortAnalysisResponse: Fact, False and Opinion are
\* *[]string, so a JSON string for any of them is a type error; "none" is no
\* field of Analysis and is ignored.  A pointer is non-nil exactly for an array.
Ptr(v) == IF v = "array" THEN "array" ELSE "nil"

UnmarshalShort(json) ==
    IF json.shape \in {"json", "null"} /\ json.exact
       /\ json.doc.fact # "string" /\ json.doc.false # "string"
       /\ json.doc.opinion # "string"
    THEN [ok |-> TRUE,
          parsed |-> [Fact |-> Ptr(json.doc.fact), False |-> Ptr(json.doc.false),
                      Opinion |-> Ptr(json.doc.opinion),
                      Confidence |-> json.doc.confidence, Sources |-> json.doc.sources]]
    ELSE [ok |-> FALSE,
          parsed |-> [Fact |-> "nil", False |-> "nil", Opinion |-> "nil",
                      Confidence |-> 0, Sources |-> NilSources]]

FilterSourcesKeepAll(src) == IF src.nil THEN <<>> ELSE src.items

\* The loop over parsed.Sources that keeps the entries with len(s) > 0.
FilterSources(src) ==
    SelectSeq(IF src.nil THEN <<>> ELSE src.items, LAMBDA x : x # "")

InvalidContent(message) ==
    ExtensionError("INVALID_CONTENT", message, TRUE, "Try analyzing the content again")

Accepted(v) == [ok |-> TRUE, value |-> v, error |-> NoError]

Rejected(v, e) == [ok |-> FALSE, value |-> v, error |-> e]

InRangeUpperOnly(n) == n <= 100

InRange(n) == n >= 0 /\ n <= 100

IsDegenerateScoresOnly(p) ==
    /\ p.credibilityScore = 0 /\ p.factuality = 0 /\ p.objectivity = 0
    /\ p.confidence = 0

IsDegenerate(p) ==
    /\ p.credibilityScore = 0 /\ p.factuality = 0 /\ p.objectivity = 0
    /\ p.confidence = 0 /\ Len(p.factual) = 0 /\ Len(p.unfactual) = 0
    /\ Len(p.subjective) = 0 /\ Len(p.objective) = 0

parseAnalysisResponse(content) ==
    LET u == UnmarshalLong(ExtractJson(content))
        p == u.parsed
    IN IF ~u.ok
       THEN Rejected(ZeroLongDoc, InvalidContent("Failed to parse analysis response"))
       ELSE IF IsDegenerate(p)
       THEN Rejected(ZeroLongDoc,
                     InvalidContent("Invalid response format from analysis service"))
       ELSE IF ~InRange(p.credibilityScore)
       THEN Rejected(ZeroLongDoc, InvalidContent("Invalid credibility score in response"))
       ELSE IF ~InRange(p.confidence)
       THEN Rejected(ZeroLongDoc, InvalidContent("Invalid confidence score in response"))
       ELSE IF ~InRange(p.factuality) \/ ~InRange(p.objectivity)
       THEN Rejected(ZeroLongDoc, InvalidContent("Category values out of range"))
       ELSE Accepted([p EXCEPT !.sources = FilterSources(p.sources)])

NilShort ==
    [Fact |-> "nil", False |-> "nil", Opinion |-> "nil", Confidence |-> 0,
     Sources |-> <<>>]

MultipleConclusionsFactOnly(p) ==
    \/ (p.Fact # "nil" /\ p.False # "nil")
    \/ (p.Fact # "nil" /\ p.Opinion # "nil")

MultipleConclusions(p) ==
    \/ (p.Fact # "nil" /\ p.False # "nil")
    \/ (p.Fact # "nil" /\ p.Opinion # "nil")
    \/ (p.False # "nil" /\ p.Opinion # "nil")

parseShortAnalysisResponse(content) ==
    LET u == UnmarshalShort(ExtractJson(content))
        p == u.parsed
    IN IF ~u.ok
       THEN Rejected(NilShort, InvalidContent("Failed to parse analysis response"))
       ELSE IF ~InRange(p.Confidence)
       THEN Rejected(NilShort, InvalidContent("Invalid confidence score in response"))
       ELSE IF MultipleConclusions(p)
       THEN Rejected(NilShort, InvalidContent("Multiple analysis conclusions"))
       ELSE Accepted([p EXCEPT !.Sources = FilterSources(p.Sources)])

(***************************************************************************)
(* aicall.go: the provider clients and the three entry points.             *)
(***************************************************************************)
Variants == {"Article", "LongText", "ShortText"}

ContentsOf(variant) == IF variant = "ShortText" THEN ShortContents ELSE LongContents

EmptyContentOf(variant) ==
    IF variant = "ShortText" THEN EmptyShortContent ELSE EmptyLongContent

\* How one round trip to Pollinations ends: client.Do fails, a status outside
\* 2xx, io.ReadAll fails, the body is no JSON, the body has no string at
\* choices[0].message.content, or it has one.
PollinationsReplies(variant) ==
    { [kind |-> k, status |-> 0, content |-> EmptyContentOf(variant)] :
        k \in {"transport"} }
    \cup { [kind |-> "http", status |-> st, content |-> EmptyContentOf(variant)] :
             st \in { x \in HttpStatuses : x < 200 \/ x >= 300 } }
    \cup { [kind |-> k, status |-> 200, content |-> EmptyContentOf(variant)] :
             k \in {"readerr", "notjson", "nocontent"} }
    \cup { [kind |-> "content", status |-> 200, content |-> c] : c \in ContentsOf(variant) }

\* How client.Models.GenerateContent ends: an error, a nil result, or a text.
GeminiReplies(variant) ==
    { [kind |-> k, status |-> 0, content |-> EmptyContentOf(variant)] :
        k \in {"sdkerror", "nilresult"} }
    \cup { [kind |-> "content", status |-> 200, content |-> c] : c \in ContentsOf(variant) }

RepliesOf(model, variant) ==
    IF model = "Gemini" THEN GeminiReplies(variant) ELSE PollinationsReplies(variant)

\* handleHttpStatusError with the 4xx range tested before 404 and 400.
handleHttpStatusErrorRangeFirst(status, message) ==
    IF status = 429
    THEN ExtensionError("RATE_LIMITED", "API rate limit exceeded", TRUE,
                        "Please wait a moment before trying again")
    ELSE IF status >= 500
    THEN ExtensionError("API_UNAVAILABLE", "Analysis service is temporarily unavailable",
                        TRUE, "Please try again in a few minutes")
    ELSE IF status >= 400 /\ status < 500
    THEN ExtensionError("API_UNAVAILABLE",
                        "API request failed with status " \o ToString(status), FALSE,
                        "Please check your request and try again")
    ELSE ExtensionError("NETWORK_ERROR", message, TRUE,
                        "Please check your internet connection and try again")

handleHttpStatusError(status, message) ==
    IF status = 429
    THEN ExtensionError("RATE_LIMITED", "API rate limit exceeded", TRUE,
                        "Please wait a moment before trying again")
    ELSE IF status >= 500
    THEN ExtensionError("API_UNAVAILABLE", "Analysis service is temporarily unavailable",
                        TRUE, "Please try again in a few minutes")
    ELSE IF status = 404
    THEN ExtensionError("API_UNAVAILABLE", "API endpoint not found (404)", FALSE,
                        "Using fallback analysis method")
    ELSE IF status = 400
    THEN ExtensionError("INVALID_CONTENT", "Invalid request format or content", FALSE,
                        "Please try with different content or check your input")
    ELSE IF status >= 400 /\ status < 500
    THEN ExtensionError("API_UNAVAILABLE",
                        "API request failed with status " \o ToString(status), FALSE,
                        "Please check your request and try again")
    ELSE ExtensionError("NETWORK_ERROR", message, TRUE,
                        "Please check your internet connection and try again")

MissingKeyRetryable ==
    ExtensionError("API_UNAVAILABLE", "Gemini API key is missing", TRUE,
                   "Please set GEMINI_API_KEY in your environment")

\* geminiApiCall before the client is made: the credential check.
MissingKey ==
    ExtensionError("API_UNAVAILABLE", "Gemini API key is missing", FALSE,
                   "Please set GEMINI_API_KEY in your environment")

ClientInitFailed ==
    ExtensionError("API_UNAVAILABLE", "Failed to initialize Gemini client", TRUE,
                   "client error")

\* geminiApiCall from GenerateContent on: (content, err)
geminiApiCall(reply, empty) ==
    IF reply.kind = "sdkerror"
    THEN [content |-> empty,
          err |-> ExtensionError("API_UNAVAILABLE", "Gemini API request failed", TRUE,
                                 "sdk error")]
    ELSE IF reply.kind = "nilresult"
    THEN [content |-> empty, err |-> NoError]
    ELSE [content |-> reply.content, err |-> NoError]

\* pollinationsApiCall with a reply without choices[0].message.content as an error.
pollinationsApiCallStrict(reply, empty) ==
    IF reply.kind = "transport"
    THEN [content |-> empty, err |-> RawError("Post: dial tcp: connection refused")]
    ELSE IF reply.status < 200 \/ reply.status >= 300
    THEN [content |-> empty,
          err |-> handleHttpStatusError(reply.status,
                      "POST request failed with status " \o ToString(reply.status))]
    ELSE IF reply.kind = "readerr"
    THEN [content |-> empty, err |-> RawError("unexpected EOF")]
    ELSE IF reply.kind = "notjson"
    THEN [content |-> empty, err |-> RawError("invalid character")]
    ELSE IF reply.kind = "nocontent"
    THEN [content |-> empty, err |-> RawError("no content in response")]
    ELSE [content |-> reply.content, err |-> NoError]

\* pollinationsApiCall from client.Do on: (content, err)
pollinationsApiCall(reply, empty) ==
    IF reply.kind = "transport"
    THEN [content |-> empty, err |-> RawError("Post: dial tcp: connection refused")]
    ELSE IF reply.status < 200 \/ reply.status >= 300
    THEN [content |-> empty,
          err |-> handleHttpStatusError(reply.status,
                      "POST request failed with status " \o ToString(reply.status))]
    ELSE IF reply.kind = "readerr"
    THEN [content |-> empty, err |-> RawError("unexpected EOF")]
    ELSE IF reply.kind = "notjson"
    THEN [content |-> empty, err |-> RawError("invalid character")]
    ELSE IF reply.kind = "nocontent"
    THEN [content |-> empty, err |-> NoError]
    ELSE [content |-> reply.content, err |-> NoError]

\* if model == Gemini {...} else if model == Pollinations {...} else {...}
ProviderCall(model, reply, empty) ==
    IF model = "Gemini" THEN geminiApiCall(reply, empty)
    ELSE IF model = "Pollinations" THEN pollinationsApiCall(reply, empty)
    ELSE [content |-> empty, err |-> RawError("is not a recognized model")]

\* The three entry points once the provider has answered.
AiAnalyzeArticle(model, reply) ==
    LET r == ProviderCall(model, reply, EmptyLongContent)
    IN IF r.err # NoError THEN Rejected(ZeroLongDoc, r.err)
       ELSE parseAnalysisResponse(r.content)

AiAnalyzeTextLong(model, reply) ==
    LET r == ProviderCall(model, reply, EmptyLongContent)
    IN IF r.err # NoError THEN Rejected(ZeroLongDoc, r.err)
       ELSE parseAnalysisResponse(r.content)

AiAnalyzeTextShort(model, reply) ==
    LET r == ProviderCall(model, reply, EmptyShortContent)
    IN IF r.err # NoError THEN Rejected(NilShort, r.err)
       ELSE parseShortAnalysisResponse(r.content)

AiAnalyze(variant, model, reply) ==
    IF variant = "Article" THEN AiAnalyzeArticle(model, reply)
    ELSE IF variant = "LongText" THEN AiAnalyzeTextLong(model, reply)
    ELSE AiAnalyzeTextShort(model, reply)

(***************************************************************************)
(* main.go: main, withCORS and the three handlers.                         *)
(***************************************************************************)
Methods == {"POST", "GET", "OPTIONS"}

\* Lengths of the content field of a request body.
ContentLengths == {0, 10, 60, 6000}

\* analysisPrompt := `...` + content + `...`: the length of the content that
\* the prompt of an entry point carries.
analysisPromptContent(content) == content

NoRequest ==
    [variant |-> "Article", method |-> "GET", decodes |-> FALSE, content |-> 0,
     cancelled |-> FALSE]

NoReply == [kind |-> "none", status |-> 0, content |-> EmptyLongContent]

HttpResponse(st, ok, e, v) == [status |-> st, success |-> ok, error |-> e, data |-> v]

NoResponse == HttpResponse(0, FALSE, NoError, "none")

\* The end of a handler without the test of err.
RespondAlwaysOk(r) == HttpResponse(200, TRUE, NoError, r.value)

\* The end of a handler: 500 and success=false on an error, else the result.
Respond(r) ==
    IF r.error # NoError
    THEN HttpResponse(500, FALSE, r.error, "none")
    ELSE HttpResponse(200, TRUE, NoError, r.value)

\* main(): godotenv.Load, the MODEL switch, the PORT check, ListenAndServe.
GoMain(dotenv, modelEnv, key, port) ==
    /\ gpc = "boot"
    /\ apiKey' = IF dotenv THEN key ELSE apiKey
    /\ IF ~dotenv
       THEN gpc' = "exited" /\ UNCHANGED selectedModel
       ELSE IF modelEnv = "pollinations"
       THEN /\ selectedModel' = "Pollinations"
            /\ gpc' = IF port THEN "idle" ELSE "exited"
       ELSE IF modelEnv = "gemini"
       THEN /\ selectedModel' = "Gemini"
            /\ gpc' = IF key # "" /\ port THEN "idle" ELSE "exited"
       ELSE gpc' = "exited" /\ UNCHANGED selectedModel
    /\ UNCHANGED <<greq, gmodel, gcalls, greply, gret, gresp, served>>
    /\ UNCHANGED <<tsVars, ctlVars>>

\* The zero result an entry point returns next to an error.
NilOf(variant) == IF variant = "ShortText" THEN NilShort ELSE ZeroLongDoc

NoReturn == [ok |-> FALSE, value |-> ZeroLongDoc, error |-> NoError]

\* AiAnalyze*(content, ..., model) up to the provider round trip: the model
\* switch, then the credential check and the client of geminiApiCall, or the
\* request of pollinationsApiCall.  Only a round trip counts in gcalls.
EnterAiAnalyze(variant, model, clientOk) ==
    /\ gmodel' = model
    /\ IF model = "Gemini" /\ apiKey = ""
       THEN /\ gret' = Rejected(NilOf(variant), MissingKey)
            /\ gcalls' = 0
            /\ gpc' = "done"
       ELSE IF model = "Gemini" /\ ~clientOk
       THEN /\ gret' = Rejected(NilOf(variant), ClientInitFailed)
            /\ gcalls' = 0
            /\ gpc' = "done"
       ELSE IF model \notin {"Gemini", "Pollinations"}
       THEN /\ gret' = AiAnalyze(variant, model, NoReply)
            /\ gcalls' = 0
            /\ gpc' = "done"
       ELSE /\ gret' = NoReturn
            /\ gcalls' = 1
            /\ gpc' = "calling"

\* withCORS(handler) and the handler up to the provider round trip of
\* AiAnalyze*(req.Content, ..., selectedModel).
GoHandle(variant, method, decodes, content, clientOk) ==
    /\ gpc = "idle"
    /\ served < MaxServed
    /\ served' = served + 1
    /\ greq' = [variant |-> variant, method |-> method, decodes |-> decodes,
                content |-> content, cancelled |-> FALSE]
    /\ IF method = "OPTIONS"
       THEN /\ gresp' = HttpResponse(204, FALSE, NoError, "none")
            /\ gcalls' = 0
            /\ gpc' = "done"
            /\ UNCHANGED <<gmodel, gret>>
       ELSE IF method # "POST"
       THEN /\ gresp' = HttpResponse(405, FALSE, RawError("Method not allowed"), "none")
            /\ gcalls' = 0
            /\ gpc' = "done"
            /\ UNCHANGED <<gmodel, gret>>
       ELSE IF ~decodes
       THEN /\ gresp' = HttpResponse(400, FALSE, RawError("Invalid request body"), "none")
            /\ gcalls' = 0
            /\ gpc' = "done"
            /\ UNCHANGED <<gmodel, gret>>
       ELSE /\ EnterAiAnalyze(variant, selectedModel, clientOk)
            /\ gresp' = IF gpc' = "done" THEN Respond(gret') ELSE NoResponse
    /\ UNCHANGED <<selectedModel, apiKey, greply>>
    /\ UNCHANGED <<tsVars, ctlVars>>

\* The provider round trip ends: the rest of AiAnalyze*.
AiAnalyzeReturns ==
    \E reply \in RepliesOf(gmodel, greq.variant) :
        /\ greply' = reply
        /\ gret' = AiAnalyze(greq.variant, gmodel, reply)

\* The provider call returns: the rest of AiAnalyze* and of the handler.
GoProviderReturns ==
    /\ gpc = "calling"
    /\ AiAnalyzeReturns
    /\ gresp' = Respond(gret')
    /\ gpc' = "done"
    /\ UNCHANGED <<selectedModel, apiKey, greq, gmodel, gcalls, served>>
    /\ UNCHANGED <<tsVars, ctlVars>>

\* GoFinish for a handler that would put selectedModel back to its zero value.
GoFinishResetsModel ==
    /\ gpc = "done"
    /\ gpc' = "idle"
    /\ greq' = NoRequest
    /\ gmodel' = "none"
    /\ gcalls' = 0
    /\ greply' = NoReply
    /\ gret' = NoReturn
    /\ gresp' = NoResponse
    /\ selectedModel' = "Gemini"
    /\ UNCHANGED <<apiKey, served>>
    /\ UNCHANGED <<tsVars, ctlVars>>

\* The handler has returned and net/http has sent the response: nothing of
\* the request is kept.
GoFinish ==
    /\ gpc = "done"
    /\ gpc' = "idle"
    /\ greq' = NoRequest
    /\ gmodel' = "none"
    /\ gcalls' = 0
    /\ greply' = NoReply
    /\ gret' = NoReturn
    /\ gresp' = NoResponse
    /\ UNCHANGED <<selectedModel, apiKey, served>>
    /\ UNCHANGED <<tsVars, ctlVars>>

\* A direct call of an entry point: AiAnalyze*(content, ..., model).
CallAiAnalyze(variant, model, content, clientOk) ==
    /\ gpc = "idle"
    /\ served < MaxServed
    /\ served' = served + 1
    /\ greq' = [variant |-> variant, method |-> "POST", decodes |-> TRUE,
                content |-> content, cancelled |-> FALSE]
    /\ EnterAiAnalyze(variant, model, clientOk)
    /\ UNCHANGED <<selectedModel, apiKey, greply, gresp>>
    /\ UNCHANGED <<tsVars, ctlVars>>

\* The provider round trip of a direct call ends and the entry point returns.
EntryReturns ==
    /\ gpc = "calling"
    /\ AiAnalyzeReturns
    /\ gpc' = "done"
    /\ UNCHANGED <<selectedModel, apiKey, greq, gmodel, gcalls, gresp, served>>
    /\ UNCHANGED <<tsVars, ctlVars>>

GoInit ==
    /\ gpc = "boot"
    /\ selectedModel = "Gemini"
    /\ apiKey = ""
    /\ greq = NoRequest
    /\ gmodel = "none"
    /\ gcalls = 0
    /\ greply = NoReply
    /\ gret = NoReturn
    /\ gresp = NoResponse
    /\ served = 0

(***************************************************************************)
(* server-control.sh.  An invocation runs its statements one at a time;   *)
(* several invocations can run at once, and the server processes and       *)
(* other programs of the host take their steps in between.                 *)
(***************************************************************************)
MaxLaunches == 2

MaxInvocations == 3

Invocations == {1, 2}

Commands == {"start", "stop", "restart", "status"}

\* Another program of the host listening on $PORT.
Foreign == -1

NoInvocation ==
    [cmd |-> "none", pc |-> "done", pid |-> 0, sawPidFile |-> FALSE, sawBusy |-> FALSE,
     launched |-> FALSE, n |-> 0]

\* case "$1" in start) ... stop) ... restart) ... status) ...
CtlInvoke(i, cmd) ==
    /\ inv[i].pc = "done"
    /\ inv[1].n + inv[2].n < MaxInvocations
    /\ inv' = [inv EXCEPT ![i] =
                 [cmd |-> cmd,
                  pc |-> IF cmd = "start" THEN "start_pidfile"
                         ELSE IF cmd = "status" THEN "status_pidfile"
                         ELSE "stop_pidfile",
                  pid |-> 0, sawPidFile |-> FALSE, sawBusy |-> FALSE, launched |-> FALSE,
                  n |-> inv[i].n + 1]]
    /\ UNCHANGED <<pidFile, alive, portHolder, launches>>
    /\ UNCHANGED <<tsVars, goVars>>

\* start_server: if [ -f "$PID_FILE" ]; then ... return 1
StartPidFile(i) ==
    /\ inv[i].pc = "start_pidfile"
    /\ inv' = [inv EXCEPT ![i].sawPidFile = (pidFile # 0),
                          ![i].pc = IF pidFile # 0 THEN "done" ELSE "start_port"]
    /\ UNCHANGED <<pidFile, alive, portHolder, launches>>
    /\ UNCHANGED <<tsVars, goVars>>

\* start_server: if netstat -tuln | grep -q ":$PORT "; then ... return 1
StartPort(i) ==
    /\ inv[i].pc = "start_port"
    /\ inv' = [inv EXCEPT ![i].sawBusy = (portHolder # 0),
                          ![i].pc = IF portHolder # 0 THEN "done" ELSE "start_launch"]
    /\ UNCHANGED <<pidFile, alive, portHolder, launches>>
    /\ UNCHANGED <<tsVars, goVars>>

\* start_server: nohup ./$SERVER_NAME > "$LOG_FILE" 2>&1 &
StartLaunch(i) ==
    /\ inv[i].pc = "start_launch"
    /\ launches < MaxLaunches
    /\ launches' = launches + 1
    /\ alive' = alive \cup {launches + 1}
    /\ inv' = [inv EXCEPT ![i].pid = launches + 1, ![i].launched = TRUE,
                          ![i].pc = "start_write"]
    /\ UNCHANGED <<pidFile, portHolder>>
    /\ UNCHANGED <<tsVars, goVars>>

\* start_server: echo $! > "$PID_FILE"
StartWrite(i) ==
    /\ inv[i].pc = "start_write"
    /\ pidFile' = inv[i].pid
    /\ inv' = [inv EXCEPT ![i].pc = "done"]
    /\ UNCHANGED <<alive, portHolder, launches>>
    /\ UNCHANGED <<tsVars, goVars>>

\* Where stop_server leaves: restart_server goes on with sleep 2; start_server.
AfterStop(cmd) == IF cmd = "restart" THEN "start_pidfile" ELSE "done"

\* stop_server: if [ ! -f "$PID_FILE" ]; then ... return 1
StopPidFile(i) ==
    /\ inv[i].pc = "stop_pidfile"
    /\ inv' = [inv EXCEPT ![i].pc = IF pidFile = 0 THEN AfterStop(inv[i].cmd)
                                    ELSE "stop_read"]
    /\ UNCHANGED <<pidFile, alive, portHolder, launches>>
    /\ UNCHANGED <<tsVars, goVars>>

\* stop_server: PID=$(cat "$PID_FILE")
StopRead(i) ==
    /\ inv[i].pc = "stop_read"
    /\ inv' = [inv EXCEPT ![i].pid = pidFile, ![i].pc = "stop_kill"]
    /\ UNCHANGED <<pidFile, alive, portHolder, launches>>
    /\ UNCHANGED <<tsVars, goVars>>

\* stop_server: kill $PID
StopKill(i) ==
    /\ inv[i].pc = "stop_kill"
    /\ alive' = alive \ {inv[i].pid}
    /\ portHolder' = IF portHolder = inv[i].pid /\ inv[i].pid # 0 THEN 0 ELSE portHolder
    /\ inv' = [inv EXCEPT ![i].pc = "stop_rm"]
    /\ UNCHANGED <<pidFile, launches>>
    /\ UNCHANGED <<tsVars, goVars>>

\* stop_server: rm -f "$PID_FILE"
StopRm(i) ==
    /\ inv[i].pc = "stop_rm"
    /\ pidFile' = 0
    /\ inv' = [inv EXCEPT ![i].pc = AfterStop(inv[i].cmd)]
    /\ UNCHANGED <<alive, portHolder, launches>>
    /\ UNCHANGED <<tsVars, goVars>>

\* status_server: if [ -f "$PID_FILE" ]; then PID=$(cat "$PID_FILE")
StatusPidFile(i) ==
    /\ inv[i].pc = "status_pidfile"
    /\ inv' = [inv EXCEPT ![i].sawPidFile = (pidFile # 0), ![i].pid = pidFile,
                          ![i].pc = IF pidFile = 0 THEN "done" ELSE "status_ps"]
    /\ UNCHANGED <<pidFile, alive, portHolder, launches>>
    /\ UNCHANGED <<tsVars, goVars>>

\* status_server: if ps -p $PID > /dev/null; then ... else ... rm -f "$PID_FILE"
StatusPs(i) ==
    /\ inv[i].pc = "status_ps"
    /\ inv' = [inv EXCEPT ![i].pc = IF inv[i].pid \in alive THEN "done" ELSE "status_rm"]
    /\ UNCHANGED <<pidFile, alive, portHolder, launches>>
    /\ UNCHANGED <<tsVars, goVars>>

StatusRm(i) ==
    /\ inv[i].pc = "status_rm"
    /\ pidFile' = 0
    /\ inv' = [inv EXCEPT ![i].pc = "done"]
    /\ UNCHANGED <<alive, portHolder, launches>>
    /\ UNCHANGED <<tsVars, goVars>>

\* A launched server reaches http.ListenAndServe(port, nil) of main: it
\* listens when the port is free, log.Fatal ends it when the port is taken.
ServerListens(p) ==
    /\ p \in alive
    /\ portHolder # p
    /\ IF portHolder = 0
       THEN portHolder' = p /\ UNCHANGED alive
       ELSE alive' = alive \ {p} /\ UNCHANGED portHolder
    /\ UNCHANGED <<pidFile, inv, launches>>
    /\ UNCHANGED <<tsVars, goVars>>

\* A server process ends by itself: log.Fatal of main, or a crash.
ServerExits(p) ==
    /\ p \in alive
    /\ alive' = alive \ {p}
    /\ portHolder' = IF portHolder = p THEN 0 ELSE portHolder
    /\ UNCHANGED <<pidFile, inv, launches>>
    /\ UNCHANGED <<tsVars, goVars>>

\* Another program of the host takes the port or gives it back.
ForeignListens ==
    /\ portHolder \in {0, Foreign}
    /\ portHolder' = IF portHolder = 0 THEN Foreign ELSE 0
    /\ UNCHANGED <<pidFile, alive, inv, launches>>
    /\ UNCHANGED <<tsVars, goVars>>

CtlInit ==
    /\ pidFile = 0
    /\ alive = {}
    /\ portHolder = 0
    /\ inv = [i \in Invocations |-> NoInvocation]
    /\ launches = 0

CtlNext ==
    \/ \E i \in Invocations, cmd \in Commands : CtlInvoke(i, cmd)
    \/ \E i \in Invocations : StartPidFile(i)
    \/ \E i \in Invocations : StartPort(i)
    \/ \E i \in Invocations : StartLaunch(i)
    \/ \E i \in Invocations : StartWrite(i)
    \/ \E i \in Invocations : StopPidFile(i)
    \/ \E i \in Invocations : StopRead(i)
    \/ \E i \in Invocations : StopKill(i)
    \/ \E i \in Invocations : StopRm(i)
    \/ \E i \in Invocations : StatusPidFile(i)
    \/ \E i \in Invocations : StatusPs(i)
    \/ \E i \in Invocations : StatusRm(i)
    \/ \E p \in 1..MaxLaunches : ServerListens(p)
    \/ \E p \in 1..MaxLaunches : ServerExits(p)
    \/ ForeignListens

(***************************************************************************)
(* Specifications.                                                         *)
(***************************************************************************)
Init == TsInit /\ GoInit /\ CtlInit

Next ==
    \/ \E t \in TextInputs : AnalyzeText(t, "https://a", Undefined)
    \/ Fetch
    \/ Settle
    \/ Wake

Spec == Init /\ [][Next]_vars

\* The loop when every provider call returns: the fetch that can go out goes
\* out, its promise settles, and the timer of a delay fires.
FairSpec ==
    /\ Init
    /\ [][Next]_vars
    /\ WF_vars(Fetch)
    /\ WF_vars(Settle)
    /\ WF_vars(Wake)

\* Calls whose results are compared: the texts "a" and "b" of 60 characters,
\* "a" with surrounding whitespace, and an over-length text; any url and title;
\* a provider that answers 429 or one of the valid analyses.
StampTexts ==
    { [absent |-> FALSE, len |-> 60, ws |-> 0, body |-> "a"],
      [absent |-> FALSE, len |-> 63, ws |-> 3, body |-> "a"],
      [absent |-> FALSE, len |-> 60, ws |-> 0, body |-> "b"],
      [absent |-> FALSE, len |-> 7000, ws |-> 0, body |-> "a"] }

StampInit == TsRest /\ backoffBase = 1000 /\ GoInit /\ CtlInit

StampNext ==
    \/ \E t \in StampTexts, u \in Urls, ti \in Titles : AnalyzeText(t, u, ti)
    \/ Fetch
    \/ StampSettle
    \/ Wake
    \/ KeepResult

StampSpec == StampInit /\ [][StampNext]_vars

GoSpecInit == TsRest /\ backoffBase = 0 /\ GoInit /\ CtlInit

GoNext ==
    \/ \E dotenv \in BOOLEAN, modelEnv \in {"pollinations", "gemini", "", "gpt"},
          key \in {"", "key"}, port \in BOOLEAN :
          GoMain(dotenv, modelEnv, key, port)
    \/ \E variant \in Variants, method \in Methods, decodes \in BOOLEAN,
          content \in ContentLengths, clientOk \in BOOLEAN :
          GoHandle(variant, method, decodes, content, clientOk)
    \/ GoProviderReturns
    \/ GoFinish

GoSpec == GoSpecInit /\ [][GoNext]_vars

\* The environment of the running process changes: os.Setenv or os.Unsetenv
\* of GEMINI_API_KEY by other code of the process, between two requests.
SetEnv(key) ==
    /\ gpc = "idle"
    /\ apiKey # key
    /\ apiKey' = key
    /\ UNCHANGED <<gpc, selectedModel, greq, gmodel, gcalls, greply, gret, gresp, served>>
    /\ UNCHANGED <<tsVars, ctlVars>>

GoEnvNext ==
    \/ GoNext
    \/ \E key \in {"", "key"} : SetEnv(key)

GoEnvSpec == GoSpecInit /\ [][GoEnvNext]_vars

\* The client of the request gives up while the handler waits for the
\* provider: r.Context() is cancelled.  No statement of the handler or of the
\* entry points reads it, so nothing else changes.
CancelRequest ==
    /\ gpc = "calling"
    /\ ~greq.cancelled
    /\ greq' = [greq EXCEPT !.cancelled = TRUE]
    /\ UNCHANGED <<gpc, selectedModel, apiKey, gmodel, gcalls, greply, gret, gresp, served>>
    /\ UNCHANGED <<tsVars, ctlVars>>

GoCancelNext ==
    \/ GoNext
    \/ CancelRequest

GoCancelSpec == GoSpecInit /\ [][GoCancelNext]_vars

\* The server with the scheduling the code gives it: main and a handler that
\* can take a step do take it.  The answer of a provider is not a step of the
\* program: nothing makes it arrive.
GoFairSpec ==
    /\ GoSpecInit
    /\ [][GoNext]_vars
    /\ WF_vars(GoFinish)
    /\ WF_vars(\E dotenv \in BOOLEAN, modelEnv \in {"pollinations", "gemini", "", "gpt"},
                  key \in {"", "key"}, port \in BOOLEAN :
                  GoMain(dotenv, modelEnv, key, port))

\* The control script on one host, with everything else at rest.
CtlSpecInit == TsRest /\ backoffBase = 0 /\ GoInit /\ CtlInit

CtlSpec == CtlSpecInit /\ [][CtlNext]_vars

\* The entry points as functions: the process has any GEMINI_API_KEY, the
\* caller passes any Model value.
Models == {"Gemini", "Pollinations", "Other"}

EntryInit ==
    /\ TsRest /\ backoffBase = 0
    /\ CtlInit
    /\ gpc = "idle"
    /\ selectedModel = "Gemini"
    /\ apiKey \in {"", "key"}
    /\ greq = NoRequest
    /\ gmodel = "none"
    /\ gcalls = 0
    /\ greply = NoReply
    /\ gret = NoReturn
    /\ gresp = NoResponse
    /\ served = 0

EntryNext ==
    \/ \E variant \in Variants, model \in Models, content \in ContentLengths,
          clientOk \in BOOLEAN :
          CallAiAnalyze(variant, model, content, clientOk)
    \/ EntryReturns
    \/ GoFinish

EntrySpec == EntryInit /\ [][EntryNext]_vars

(***************************************************************************)
(* Properties of the retry loop (Spec).                                    *)
(***************************************************************************)
\* The call was rejected by the content checks before the loop.
RejectedBeforeLoop == pc = "done" /\ providerCalls = 0

SumSeq(q) ==
    IF Len(q) = 0 THEN 0
    ELSE IF Len(q) = 1 THEN q[1]
    ELSE IF Len(q) = 2 THEN q[1] + q[2]
    ELSE q[1] + q[2] + q[3]

\* C1: a call issues at most 3 provider calls: the attempt counter stays in
\* 1..3 and every attempt makes exactly one provider call (before the call of
\* attempt n there were n - 1 calls, after it n).
RetryLoopAtMostThreeCalls ==
    /\ providerCalls <= 3
    /\ attempt \in 1..3
    /\ Len(replies) <= providerCalls
    /\ pc = "attempting" => providerCalls = attempt - 1
    /\ pc \in {"awaiting", "sleeping"} => providerCalls = attempt
    /\ (pc = "done" /\ ~RejectedBeforeLoop) =>
          (providerCalls = attempt /\ Len(replies) = attempt)

ThreeCallsMade == pc = "done" /\ providerCalls = 3 /\ Len(replies) = 3

AllRateLimited ==
    /\ Len(replies) >= 1
    /\ \A i \in 1..Len(replies) : replies[i].kind = "http" /\ replies[i].status = 429

LoopEndsRateLimitedOrFallback ==
    (pc = "done" /\ AllRateLimited) =>
        /\ providerCalls = 3
        /\ \/ result.kind = "fallback"
           \/ /\ result.kind = "error"
              /\ result.error.ext
              /\ result.error.type = "RATE_LIMITED"

LastPlan == plans[Len(plans)]

SleepsOnlyBetweenAttempts ==
    /\ Len(sleeps) <= 2
    /\ \A i \in 1..Len(sleeps) :
          /\ sleeps[i] <= 10000
          /\ i <= Len(plans)
          /\ sleeps[i] = IF plans[i].backoffDelay <= 10000
                         THEN plans[i].backoffDelay ELSE 10000
    /\ SumSeq(sleeps) <= 20000
    /\ pc = "sleeping" => (Len(sleeps) = attempt /\ attempt < 3)
    /\ pc \in {"attempting", "awaiting"} => Len(sleeps) = attempt - 1
    /\ (pc = "done" /\ ~RejectedBeforeLoop) => Len(sleeps) = providerCalls - 1
    /\ RejectedBeforeLoop => Len(sleeps) = 0

SleptTwiceThenEnded ==
    /\ pc = "done"
    /\ Len(sleeps) = 2
    /\ sleeps[1] < sleeps[2]
    /\ providerCalls = 3

\* C19: when a call ends in an error, the error thrown to the caller is the
\* ExtensionError made for the failure of the last attempt, with the same kind,
\* message, retryable flag and userMessage.
LastReply == replies[Len(replies)]

ErrorSurfacedUnchanged ==
    (pc = "done" /\ result.kind = "error" /\ Len(replies) >= 1
       /\ doApiCall(LastReply).error.ext)
    => result.error = doApiCall(LastReply).error

(***************************************************************************)
(* Properties of the Go server (GoSpec).                                   *)
(***************************************************************************)
\* The handler passed the request on to AiAnalyze*.
Analysed == gpc = "done" /\ gcalls = 1

LongVariant == greq.variant \in {"Article", "LongText"}

\* The provider's text was a JSON object that json.Unmarshal decoded.
DecodedLong ==
    /\ Analysed /\ LongVariant
    /\ greply.kind = "content"
    /\ greply.content.shape = "json"
    /\ greply.content.pre # "braces" /\ greply.content.post # "braces"

DecodedShort ==
    /\ Analysed /\ greq.variant = "ShortText"
    /\ greply.kind = "content"
    /\ greply.content.shape = "json"
    /\ greply.content.pre # "braces" /\ greply.content.post # "braces"
    /\ greply.content.doc.fact # "string"
    /\ greply.content.doc.false # "string"
    /\ greply.content.doc.opinion # "string"

RejectedInvalidContent ==
    /\ ~gresp.success
    /\ gresp.status = 500
    /\ gresp.error.ext
    /\ gresp.error.type = "INVALID_CONTENT"
    /\ gresp.error.retryable

\* C3: a request whose provider call is answered with HTTP 429 (a retryable
\* failure) has three provider calls issued for it, and ends in a RateLimited
\* error or in a fallback result returned as a success.
RateLimitedRetriedThreeTimes ==
    (gpc = "done" /\ greply.kind = "http" /\ greply.status = 429) =>
        /\ gcalls = 3
        /\ \/ gresp.success
           \/ gresp.error.ext /\ gresp.error.type = "RATE_LIMITED"

\* C7: a request whose content is empty or shorter than 50 characters is
\* answered with a non-retryable InvalidContent error and no provider call is
\* issued for it, for every variant.
PassedToPipeline == greq.method = "POST" /\ greq.decodes /\ gpc \in {"calling", "done"}

ShortContentRejectedWithoutCall ==
    (PassedToPipeline /\ greq.content < 50) =>
        /\ gcalls = 0
        /\ gpc = "done"
        /\ gresp.error.ext
        /\ gresp.error.type = "INVALID_CONTENT"
        /\ ~gresp.error.retryable

\* C8: every accepted result has credibilityScore, confidence, factuality and
\* objectivity in 0..100 (confidence for the short variant), and a decoded
\* response with one of them outside 0..100 is rejected with a retryable
\* InvalidContent error.
Doc == greply.content.doc

AcceptedScoresInRange ==
    /\ (Analysed /\ LongVariant /\ gresp.success) =>
          /\ gresp.data.credibilityScore \in 0..100
          /\ gresp.data.confidence \in 0..100
          /\ gresp.data.factuality \in 0..100
          /\ gresp.data.objectivity \in 0..100
    /\ (Analysed /\ greq.variant = "ShortText" /\ gresp.success) =>
          gresp.data.Confidence \in 0..100
    /\ (DecodedLong /\ ( \/ Doc.credibilityScore \notin 0..100
                         \/ Doc.confidence \notin 0..100
                         \/ Doc.factuality \notin 0..100
                         \/ Doc.objectivity \notin 0..100 )) => RejectedInvalidContent
    /\ (DecodedShort /\ Doc.confidence \notin 0..100) => RejectedInvalidContent

NegativeScoreRejected ==
    /\ DecodedLong
    /\ Doc.credibilityScore = 100 /\ Doc.confidence = 100 /\ Doc.factuality = 100
    /\ Doc.objectivity = -1
    /\ RejectedInvalidContent

\* C9: a decoded long response whose four numbers are 0 and whose four
\* reasoning arrays are empty is rejected with a retryable InvalidContent error
\* by the required-fields check, and that check rejects no other response.
AllZero(d) ==
    /\ d.credibilityScore = 0 /\ d.factuality = 0 /\ d.objectivity = 0 /\ d.confidence = 0
    /\ d.factual = <<>> /\ d.unfactual = <<>> /\ d.subjective = <<>> /\ d.objective = <<>>

DegenerateMessage == "Invalid response format from analysis service"

DegenerateResponseRejected ==
    DecodedLong =>
        /\ AllZero(Doc) => (RejectedInvalidContent /\ gresp.error.message = DegenerateMessage)
        /\ ~AllZero(Doc) => gresp.error.message # DegenerateMessage

DegenerateSeenAndRejected ==
    /\ DecodedLong
    /\ AllZero(Doc)
    /\ RejectedInvalidContent

OnlyReasoningGivenAccepted ==
    /\ DecodedLong
    /\ Doc.credibilityScore = 0 /\ Doc.factuality = 0 /\ Doc.objectivity = 0
    /\ Doc.confidence = 0
    /\ Doc.objective # <<>>
    /\ gresp.success

\* C10: a short response that populates two or more of fact, false and opinion
\* is rejected with a retryable InvalidContent error, whichever keys they are
\* and however they are populated.
Populated(v) == v \in {"string", "array"}

PopulatedCount(d) ==
    (IF Populated(d.fact) THEN 1 ELSE 0) + (IF Populated(d.false) THEN 1 ELSE 0)
    + (IF Populated(d.opinion) THEN 1 ELSE 0)

MultipleConclusionsRejected ==
    (Analysed /\ greq.variant = "ShortText" /\ greply.kind = "content"
       /\ greply.content.shape = "json" /\ PopulatedCount(Doc) >= 2)
    => RejectedInvalidContent

FalseAndOpinionRejected ==
    /\ DecodedShort
    /\ Doc.fact = "absent" /\ Doc.false = "array" /\ Doc.opinion = "array"
    /\ Doc.confidence \in 0..100
    /\ RejectedInvalidContent
    /\ gresp.error.message = "Multiple analysis conclusions"

\* C11: every short result returned with success has exactly one of the keys
\* fact, false, opinion, none populated: the response it was made from
\* populates exactly one of the four, and so does the result.
ShortAccepted == Analysed /\ greq.variant = "ShortText" /\ gresp.success

KeysGiven(d) == PopulatedCount(d) + (IF Populated(d.none) THEN 1 ELSE 0)

KeysInResult(v) ==
    (IF v.Fact # "nil" THEN 1 ELSE 0) + (IF v.False # "nil" THEN 1 ELSE 0)
    + (IF v.Opinion # "nil" THEN 1 ELSE 0)

ShortResultHasExactlyOneKey ==
    ShortAccepted => (KeysGiven(Doc) = 1 /\ KeysInResult(gresp.data) = 1)

\* C12: in every accepted result sources is a sequence without an empty
\* string: a missing or null field gives the empty sequence, and otherwise the
\* entries of the response that are not empty, with their values and order.
RECURSIVE WithoutEmpty(_)
WithoutEmpty(q) ==
    IF q = <<>> THEN <<>>
    ELSE IF Head(q) = "" THEN WithoutEmpty(Tail(q))
    ELSE <<Head(q)>> \o WithoutEmpty(Tail(q))

SourcesOf(v) == IF greq.variant = "ShortText" THEN v.Sources ELSE v.sources

SourcesHaveNoEmptyString ==
    (Analysed /\ gresp.success) =>
        /\ \A i \in 1..Len(SourcesOf(gresp.data)) : SourcesOf(gresp.data)[i] # ""
        /\ Doc.sources.nil => SourcesOf(gresp.data) = <<>>
        /\ ~Doc.sources.nil => SourcesOf(gresp.data) = WithoutEmpty(Doc.sources.items)

EmptySourcesDropped ==
    /\ Analysed /\ gresp.success
    /\ Doc.sources = [nil |-> FALSE, items |-> <<" ", "[2](v)", "">>]
    /\ SourcesOf(gresp.data) = <<" ", "[2](v)">>

\* C13: no accepted result has a sources entry that is blank, that is empty or
\* made of whitespace only.
BlankEntries == {"", " "}

NoBlankSourceInResult ==
    (Analysed /\ gresp.success) =>
        \A i \in 1..Len(SourcesOf(gresp.data)) : SourcesOf(gresp.data)[i] \notin BlankEntries

\* C14: when the provider's text is a JSON object with prose before or after
\* it, the validator works on the object alone, from its { to the matching }:
\* the outcome is the one of the object without the prose, also when the prose
\* after the object contains braces.
ParseOf(variant, content) ==
    IF variant = "ShortText" THEN parseShortAnalysisResponse(content)
    ELSE parseAnalysisResponse(content)

ObjectIsolatedFromProse ==
    (Analysed /\ greply.kind = "content" /\ greply.content.shape = "json"
       /\ greply.content.pre # "braces")
    => gret = ParseOf(greq.variant, Content("", "json", Doc, ""))

\* C15: a provider text without a JSON object (empty, prose, braces that are no
\* JSON, the literal null) never gives a successful result: the request fails
\* with a retryable InvalidContent error, for both validators.
TextWithoutObjectRejected ==
    (Analysed /\ greply.kind = "content" /\ greply.content.shape \in NonJsonShapes)
    => RejectedInvalidContent

\* C16: the classification of an HTTP status depends on the status alone and
\* covers every status: 429 is RateLimited (retryable), 500 and above is
\* ApiUnavailable (retryable), 404 is ApiUnavailable (not retryable), 400 is
\* InvalidContent (not retryable), the rest of 400..499 is ApiUnavailable (not
\* retryable), anything else is NetworkError (retryable); handleHttpStatusError
\* and createHttpError give the same kind and flag for every status, and the
\* error a request ends with after a non-2xx reply is the one of this table.
\* Statuses at and next to every boundary of the cascade.
StatusCodes ==
    {100, 199, 300, 302, 399, 400, 401, 403, 404, 405, 428, 429, 430, 499, 500, 503, 599}

KindOfStatus(st) ==
    CASE st = 429 -> <<"RATE_LIMITED", TRUE>>
      [] st = 404 -> <<"API_UNAVAILABLE", FALSE>>
      [] st = 400 -> <<"INVALID_CONTENT", FALSE>>
      [] st \in 500..599 -> <<"API_UNAVAILABLE", TRUE>>
      [] st \in (401..499) \ {404, 429} -> <<"API_UNAVAILABLE", FALSE>>
      [] OTHER -> <<"NETWORK_ERROR", TRUE>>

KindOf(e) == <<e.type, e.retryable>>

StatusClassificationAgrees ==
    /\ \A st \in StatusCodes :
          /\ handleHttpStatusError(st, "failed").ext
          /\ createHttpError(st, "failed").ext
          /\ KindOf(handleHttpStatusError(st, "failed")) = KindOfStatus(st)
          /\ KindOf(createHttpError(st, "failed")) = KindOf(handleHttpStatusError(st, "failed"))
    /\ (gpc = "done" /\ greply.kind = "http") =>
          /\ gret.error.ext
          /\ KindOf(gret.error) = KindOfStatus(greply.status)
          /\ gresp.error = gret.error

RedirectIsNetworkError ==
    /\ gpc = "done"
    /\ greply.kind = "http"
    /\ greply.status = 302
    /\ gret.error.type = "NETWORK_ERROR"
    /\ gret.error.retryable

\* C17: a provider reply with HTTP 404 is not retried and the request ends with
\* a degraded result returned as a success; a reply with HTTP 400 or another
\* 4xx status except 429 is not retried either and the request ends with an
\* error.
NotFoundEndsInFallback ==
    (gpc = "done" /\ greply.kind = "http" /\ greply.status \in (400..499) \ {429}) =>
        /\ gcalls = 1
        /\ greply.status = 404 => gresp.success
        /\ greply.status # 404 => (~gresp.success /\ gresp.error # NoError)

(***************************************************************************)
(* Properties of the entry points called as functions (EntrySpec).         *)
(***************************************************************************)
\* C18: every error an entry point returns is an ExtensionError of one of the
\* four kinds, whatever failed: the transport, the reading or decoding of the
\* reply, the model switch.
EveryFailureIsTyped ==
    (gpc = "done" /\ gret.error # NoError) =>
        (gret.error.ext /\ gret.error.type \in ErrorTypes)

\* C20: a call for the Gemini model while GEMINI_API_KEY is empty fails with a
\* non-retryable ApiUnavailable error before a client is made, and no request
\* goes out.
MissingCredentialFailsWithoutRequest ==
    (gpc \in {"calling", "done"} /\ gmodel = "Gemini" /\ apiKey = "") =>
        /\ gpc = "done"
        /\ gcalls = 0
        /\ greply = NoReply
        /\ ~gret.ok
        /\ gret.error.ext
        /\ gret.error.type = "API_UNAVAILABLE"
        /\ ~gret.error.retryable
        /\ gret.error.message # ClientInitFailed.message

GeminiCalledWithoutKey ==
    /\ gpc = "done"
    /\ gmodel = "Gemini"
    /\ apiKey = ""
    /\ gcalls = 0
    /\ gret.error.type = "API_UNAVAILABLE"

(***************************************************************************)
(* Properties of the third group of claims.                                *)
(***************************************************************************)
\* C21: a provider round trip always ends: when the provider never answers,
\* a timeout ends the call in a failure, so a request that is waiting for its
\* provider is answered eventually.
ProviderRoundTripEnds == (gpc = "calling") ~> (gpc = "done")

\* C27: content longer than 5,000 characters is cut to at most 4,000
\* characters before it is sent: no provider call carries more.
OverlongContentTruncatedBeforeCall ==
    (gcalls >= 1 /\ greq.content > 5000) => analysisPromptContent(greq.content) <= 4000

CredentialResolvedAtStart ==
    (gpc = "done" /\ gmodel = "Gemini") => gret.error.message # MissingKey.message

SuccessfulResultIsStamped ==
    (Analysed /\ gresp.success) =>
        {"id", "timestamp", "contentHash"} \subseteq DOMAIN gresp.data

\* What a validated provider response holds, and what the result holds of it.
ProviderFields ==
    {"credibilityScore", "factuality", "objectivity", "confidence",
     "factual", "unfactual", "subjective", "objective", "sources"}

FirstReplyValid == pc = "done" /\ Len(replies) >= 1 /\ replies[1].body = "valid"

ProviderValuesUnchanged(v, d) ==
    /\ v.credibilityScore = d.credibilityScore
    /\ v.factuality = d.factuality
    /\ v.objectivity = d.objectivity
    /\ v.confidence = d.confidence
    /\ v.factual = d.factual
    /\ v.unfactual = d.unfactual
    /\ v.subjective = d.subjective
    /\ v.objective = d.objective
    /\ (~d.sources.nil) => v.sources = d.sources.items

TwoResults == earlier.kept /\ pc = "done" /\ result.kind = "success"

NormalizedContent(t) == [len |-> sanitizeText(t), body |-> t.body]

UrlGiven(u) == IF u \in {Undefined, ""} THEN Undefined ELSE u

\* C23: contentHash is a function of (normalized content, url) only: two
\* calls with the same content and url get the same hash whatever the provider
\* answered, and two calls that differ in content or in url, an absent url
\* against a given one included, get different hashes.
ContentHashTellsInputsApart ==
    TwoResults =>
        ( ( /\ NormalizedContent(earlier.text) = NormalizedContent(text)
            /\ UrlGiven(earlier.url) = UrlGiven(args.url) )
          <=> earlier.contentHash = result.value.contentHash )

\* C25: any two distinct successful calls receive different ids, two that
\* complete at the same timestamp included.
IdsUniquePerCall == TwoResults => result.value.id # earlier.id

StartFindsFreePort ==
    \A i \in Invocations :
        ( /\ inv[i].cmd = "start"
          /\ inv[i].pc = "done"
          /\ ~inv[i].sawPidFile
          /\ inv[i].sawBusy ) => inv[i].launched

\* C38: the control script never runs two server processes at once, over any
\* interleaving of its invocations, and a start that finds a PID file
\* launches nothing.
NeverTwoServerProcesses ==
    /\ Cardinality(alive) <= 1
    /\ \A i \in Invocations :
          (inv[i].cmd = "start" /\ inv[i].pc = "done" /\ inv[i].sawPidFile)
              => ~inv[i].launched

\* The short response the prompt asks for: one of the four keys maps to a
\* string, the others are absent, and the confidence is in range.
PromptShaped(d) ==
    /\ {d.fact, d.false, d.opinion, d.none} \subseteq {"absent", "string"}
    /\ KeysGiven(d) = 1
    /\ d.confidence \in 0..100

\* C34: a short response in the shape the prompt requires is accepted, and
\* the returned result carries the key that was given.
PromptShapedShortAccepted ==
    ( /\ Analysed /\ greq.variant = "ShortText"
      /\ greply.kind = "content"
      /\ greply.content.shape = "json"
      /\ greply.content.pre = "" /\ greply.content.post = ""
      /\ PromptShaped(Doc) )
    => /\ gresp.success
       /\ IF ~gresp.success THEN FALSE
          ELSE /\ (Doc.fact = "string") => gresp.data.Fact # "nil"
               /\ (Doc.false = "string") => gresp.data.False # "nil"
               /\ (Doc.opinion = "string") => gresp.data.Opinion # "nil"
               /\ (Doc.none = "string") => "None" \in DOMAIN gresp.data

\* C33: provided every provider call returns, every analysis call reaches a
\* terminal outcome, and an ended call has exactly one of success, surfaced
\* error and fallback: the loop neither cycles forever nor ends without one.
EveryCallReachesOneOutcome ==
    /\ [](pc = "done" => result.kind \in {"success", "error", "fallback"})
    /\ [](pc # "done" => result.kind = "none")
    /\ (pc \in {"attempting", "awaiting", "sleeping"}) ~> (pc = "done")

ExhaustedWithError ==
    /\ pc = "done"
    /\ providerCalls = 3
    /\ Len(sleeps) = 2
    /\ result.kind = "error"
    /\ result.error.message = "All API request strategies failed"

\* C35: a cancellation signal that reaches a call in progress aborts the
\* current attempt: the call ends in the abort, not in an answer built from
\* the provider's reply, and no further provider call is started.
CancellationAbortsAttempt ==
    (gpc = "done" /\ greq.cancelled) =>
        /\ ~gresp.success
        /\ greply.kind = "none"
        /\ gcalls <= 1

\* C36: a 2xx reply of the keyless provider that is JSON without a string at
\* choices[0].message.content never yields a successful analysis: the client
\* returns the empty text without an error, and the validator fails with a
\* retryable InvalidContent error, for each of the three variants.
ReplyWithoutContentRejected ==
    (gpc = "done" /\ gmodel = "Pollinations" /\ gcalls = 1 /\ greply.kind = "nocontent") =>
        /\ pollinationsApiCall(greply, EmptyContentOf(greq.variant)).err = NoError
        /\ pollinationsApiCall(greply, EmptyContentOf(greq.variant)).content.shape = "empty"
        /\ gret.error = InvalidContent("Failed to parse analysis response")
        /\ RejectedInvalidContent

ShortReplyWithoutContent ==
    /\ gpc = "done"
    /\ gmodel = "Pollinations"
    /\ greq.variant = "ShortText"
    /\ greply.kind = "nocontent"
    /\ greply.status = 200
    /\ gresp.status = 500
    /\ gresp.error.type = "INVALID_CONTENT"

\* C37: a handler invokes the pipeline only for a POST request whose body
\* decodes: OPTIONS is answered 204 by the CORS wrapper, any other method 405
\* and an undecodable body 400, all without a provider call; a pipeline error
\* is answered 500 with success=false, and success=true with the result as
\* data is sent only when the pipeline returned a result.
HandlerGatesThePipeline ==
    (gpc \in {"calling", "done"}) =>
        /\ (gcalls >= 1 \/ gmodel # "none") => (greq.method = "POST" /\ greq.decodes)
        /\ (gpc = "done" /\ greq.method = "OPTIONS") => gresp.status = 204
        /\ (gpc = "done" /\ greq.method \notin {"POST", "OPTIONS"}) =>
              (gresp.status = 405 /\ ~gresp.success)
        /\ (gpc = "done" /\ greq.method = "POST" /\ ~greq.decodes) =>
              (gresp.status = 400 /\ ~gresp.success)
        /\ (gpc = "done" /\ gret.error # NoError) =>
              (gresp.status = 500 /\ ~gresp.success)
        /\ (gpc = "done" /\ gresp.success) =>
              /\ greq.method = "POST" /\ greq.decodes
              /\ gret.ok /\ gret.error = NoError
              /\ gresp.status = 200
              /\ gresp.data = gret.value

PipelineErrorAnswered500 ==
    /\ gpc = "done"
    /\ greq.method = "POST" /\ greq.decodes
    /\ gcalls = 1
    /\ greply.kind = "http" /\ greply.status = 500
    /\ gret.error.type = "API_UNAVAILABLE"
    /\ gresp.status = 500
    /\ ~gresp.success

====
